---- MODULE Spec2Model ----
(***************************************************************************)
(* Model of the address / contact intake widget (src/app.js and            *)
(* src/contacto.js).                                                       *)
(*                                                                         *)
(* Strings whose characters the code inspects (RUT, email, phone) are      *)
(* sequences of one-character strings; strings the code only tests for     *)
(* truthiness or copies are TLA+ strings.                                  *)
(*                                                                         *)
(* SpecRut   - the pure RUT functions applied to bounded inputs.           *)
(* Spec      - the two forms as event-driven state machines: one action    *)
(*             per event handler, per continuation of an async function    *)
(*             after its await, and per timer callback.  The two scripts   *)
(*             share no element and no global, so a behaviour of the page  *)
(*             is an interleaving of one behaviour of each form; a         *)
(*             behaviour of Spec follows one form (`formulario`).          *)
(*             Keyboard focus is not modelled.                             *)
(***************************************************************************)
EXTENDS Integers, Sequences, FiniteSets, TLC

VARIABLES
    original,   \* SpecRut: the string the caller started from
    entrada,    \* SpecRut: the argument of the current call
    origen,     \* SpecRut: the function whose output `entrada` is ("ninguna": raw)
    llamada,    \* SpecRut: the function applied last to `entrada` ("ninguna": none yet)
    salida,     \* SpecRut: what that call returned
    formulario, \* the form this behaviour follows: "direccion", "contacto" or "ninguno"
    \* ---- address form (src/app.js)
    direccionProcesada, \* window.direccionProcesada
    direccionValue,     \* #direccion .value
    complemento,        \* #complemento .value
    ocultos,            \* the elements of the address form carrying class "hidden"
    msg,                \* #msg: [className, innerHTML]
    btn,                \* #btn-crear: [disabled, textHidden, loaderActive]
    pendientes,         \* bodies of the fetches of enviarDireccion still in flight
    temporizadores,     \* number of setTimeout callbacks of enviarDireccion not yet run
    \* ---- contact form (src/contacto.js)
    rutInput,           \* #rut: [value, classList]
    rutHint,            \* #rut-hint: [textContent, classList]
    emailInput,         \* #email: [value, classList]
    emailHint,          \* #email-hint: [textContent, classList]
    telefonoInput,      \* #telefono: [value, classList]
    telefonoHint,       \* #telefono-hint: [textContent, classList]
    unidadNegocio,      \* #unidad-negocio: the selected option, [value, text]
    direccionContactoValue,     \* #direccion-contacto .value
    complementoContacto,        \* #complemento-contacto .value
    direccionContactoProcesada, \* window.direccionContactoProcesada
    ocultosContacto,    \* the elements of the contact form carrying class "hidden"
    msgContacto,        \* #msg-contacto: [className, innerHTML]
    btnContacto,        \* #btn-crear-contacto: [disabled, textHidden, loaderActive]
    pendientesContacto, \* the calls of crearContacto suspended at their await
    resultadoContent    \* #resultado-content: what mostrarResultado rendered

varsRut == <<original, entrada, origen, llamada, salida>>

varsDireccion == <<direccionProcesada, direccionValue, complemento, ocultos,
                   msg, btn, pendientes, temporizadores>>

varsContacto == <<rutInput, rutHint, emailInput, emailHint, telefonoInput,
                  telefonoHint, unidadNegocio, direccionContactoValue,
                  complementoContacto, direccionContactoProcesada,
                  ocultosContacto, msgContacto, btnContacto, pendientesContacto,
                  resultadoContent>>

vars == <<original, entrada, origen, llamada, salida, formulario,
          direccionProcesada, direccionValue, complemento, ocultos,
          msg, btn, pendientes, temporizadores,
          rutInput, rutHint, emailInput, emailHint, telefonoInput,
          telefonoHint, unidadNegocio, direccionContactoValue,
          complementoContacto, direccionContactoProcesada,
          ocultosContacto, msgContacto, btnContacto, pendientesContacto,
          resultadoContent>>

\* what an action of the address form leaves alone, and one of the contact form
fueraDeDireccion == <<varsRut, formulario, varsContacto>>
fueraDeContacto == <<varsRut, formulario, varsDireccion>>

-----------------------------------------------------------------------------
(* JavaScript primitives used by the validators *)

\* JavaScript null (error: null)
NULL == "null"

Digitos == <<"0", "1", "2", "3", "4", "5", "6", "7", "8", "9">>

\* \d
EsDigito(c) == \E i \in 1..Len(Digitos) : Digitos[i] = c

\* parseInt of a one-digit string
parseInt(c) == (CHOOSE i \in 1..Len(Digitos) : Digitos[i] = c) - 1

\* Number.prototype.toString for 0..11 (two digits are one value here: the
\* code only compares the result with a one-character string)
toString(n) == IF n < 10 THEN Digitos[n + 1] ELSE IF n = 10 THEN "10" ELSE "11"

\* String.prototype.toUpperCase, on the letters the model's alphabets hold
MayusculaDe(c) ==
    CASE c = "k" -> "K"
      [] c = "a" -> "A"
      [] c = "b" -> "B"
      [] c = "c" -> "C"
      [] OTHER -> c

toUpperCase(s) == [i \in 1..Len(s) |-> MayusculaDe(s[i])]

\* [0-9kK]
EsCaracterRut(c) == EsDigito(c) \/ c = "k" \/ c = "K"

\* s.replace(/[^0-9kK]/g, '')
quitarNoRut(s) == SelectSeq(s, EsCaracterRut)

\* s.slice(0, -1) and s.slice(-1), for Len(s) >= 1
sliceCuerpo(s) == SubSeq(s, 1, Len(s) - 1)
sliceDv(s) == SubSeq(s, Len(s), Len(s))

-----------------------------------------------------------------------------
(* src/contacto.js: RUT *)

formatearRutSinLimpiar(rut) ==
    IF Len(rut) < 2
    THEN rut
    ELSE sliceCuerpo(rut) \o <<"-">> \o sliceDv(rut)

\* function formatearRut(rut)
formatearRut(rut) ==
    LET valor == toUpperCase(quitarNoRut(rut))
    IN  IF Len(valor) < 2
        THEN valor
        ELSE sliceCuerpo(valor) \o <<"-">> \o sliceDv(valor)

limpiarRutSinMayusculas(rut) == quitarNoRut(rut)

\* function limpiarRut(rut)
limpiarRut(rut) == toUpperCase(quitarNoRut(rut))

\* /^\d+$/.test(cuerpo)
esNumerico(cuerpo) ==
    Len(cuerpo) >= 1 /\ \A i \in 1..Len(cuerpo) : EsDigito(cuerpo[i])

esRepetidoNunca(cuerpo) == FALSE

\* /^(\d)\1+$/.test(cuerpo)
esRepetido(cuerpo) ==
    /\ Len(cuerpo) >= 2
    /\ EsDigito(cuerpo[1])
    /\ \A i \in 2..Len(cuerpo) : cuerpo[i] = cuerpo[1]

siguienteMultiplicadorSinCiclo(multiplicador) == multiplicador + 1

\* multiplicador = multiplicador === 7 ? 2 : multiplicador + 1
siguienteMultiplicador(multiplicador) ==
    IF multiplicador = 7 THEN 2 ELSE multiplicador + 1

\* for (let i = cuerpo.length - 1; i >= 0; i--) { suma += ...; multiplicador = ... }
\* (i is the 1-based index here)
RECURSIVE bucleSuma(_, _, _, _)
bucleSuma(cuerpo, i, suma, multiplicador) ==
    IF i < 1
    THEN suma
    ELSE bucleSuma(cuerpo, i - 1,
                   suma + parseInt(cuerpo[i]) * multiplicador,
                   siguienteMultiplicador(multiplicador))

dvEsperadoSinOnce(dvCalculado) ==
    IF dvCalculado = 10 THEN "K" ELSE toString(dvCalculado)

\* let dvEsperado; if (dvCalculado === 11) ... else if (dvCalculado === 10) ...
dvEsperado(dvCalculado) ==
    IF dvCalculado = 11 THEN "0"
    ELSE IF dvCalculado = 10 THEN "K"
    ELSE toString(dvCalculado)

\* function validarRut(rut)
validarRut(rut) ==
    LET valor == toUpperCase(quitarNoRut(rut))
        cuerpo == sliceCuerpo(valor)
        dvIngresado == valor[Len(valor)]
        suma == bucleSuma(cuerpo, Len(cuerpo), 0, 2)
        resto == suma % 11
        dvCalculado == 11 - resto
    IN  IF Len(valor) < 2
            THEN [valid |-> FALSE, error |-> NULL]
        ELSE IF ~esNumerico(cuerpo)
            THEN [valid |-> FALSE, error |-> "El RUT debe contener solo numeros"]
        ELSE IF Len(cuerpo) < 7
            THEN [valid |-> FALSE, error |-> "RUT muy corto (minimo 7 digitos)"]
        ELSE IF Len(cuerpo) > 8
            THEN [valid |-> FALSE, error |-> "RUT muy largo (maximo 8 digitos)"]
        ELSE IF esRepetido(cuerpo)
            THEN [valid |-> FALSE, error |-> "RUT invalido (numeros repetidos)"]
        ELSE IF dvIngresado # dvEsperado(dvCalculado)
            THEN [valid |-> FALSE, error |-> "Digito verificador incorrecto"]
        ELSE [valid |-> TRUE, error |-> NULL]

-----------------------------------------------------------------------------
(* JavaScript values shared by the two forms *)

\* undefined (a property the object does not have)
UNDEFINED == "undefined"

\* truthiness of a string-valued property
Truthy(v) == v \notin {"", NULL, UNDEFINED}

\* \s
EsEspacio(c) == c = " "

\* String.prototype.trim
RECURSIVE trimStart(_)
trimStart(s) ==
    IF s # <<>> /\ EsEspacio(Head(s)) THEN trimStart(Tail(s)) ELSE s

RECURSIVE trimEnd(_)
trimEnd(s) ==
    IF s # <<>> /\ EsEspacio(s[Len(s)]) THEN trimEnd(SubSeq(s, 1, Len(s) - 1)) ELSE s

trim(s) == trimEnd(trimStart(s))

\* window.direccionProcesada = null
NULO == [nulo |-> TRUE]

\* the addresses the autocomplete can store: a complete one and one without
\* street
Direcciones == {
    [street |-> "Av. Uno", number |-> "100", comuna |-> "Santiago",
     region |-> "RM", postal |-> "8320000", formatted |-> "Av. Uno 100, Santiago"],
    [street |-> "", number |-> "", comuna |-> "Santiago",
     region |-> "RM", postal |-> "", formatted |-> "Santiago"] }

\* a fetch that rejects, and a response whose body is not JSON
RECHAZO == [red |-> "rechazo"]
NO_JSON == [red |-> "no_json"]

\* res.json() resolved with `data`
Parseada(data) == [red |-> "ok", data |-> data]

-----------------------------------------------------------------------------
(* src/app.js: the address form *)

\* most fetches of one form in flight, and most timers pending
MaxPendientes == 2
MaxTemporizadores == 2

ElementosDireccion == {"direccion-info", "complemento-wrapper", "map-preview"}

ValoresComplemento == {<<>>, <<" ", "B">>}

BotonListo == [disabled |-> FALSE, textHidden |-> FALSE, loaderActive |-> FALSE]
BotonCargando == [disabled |-> TRUE, textHidden |-> TRUE, loaderActive |-> TRUE]

MsgVacio == [className |-> "msg", innerHTML |-> <<>>]

\* what the worker can answer to enviarDireccion: JSON null and objects with
\* and without status, id, error, odoo_error
DatosDireccion == {
    [nulo |-> TRUE],
    [status |-> "ok", id |-> "7", error |-> UNDEFINED, odoo_error |-> UNDEFINED],
    [status |-> "error", id |-> UNDEFINED, error |-> "Direccion duplicada",
     odoo_error |-> UNDEFINED],
    [status |-> "error", id |-> UNDEFINED, error |-> UNDEFINED,
     odoo_error |-> "ValidationError"],
    [status |-> UNDEFINED, id |-> "7", error |-> UNDEFINED, odoo_error |-> UNDEFINED] }

RespuestasDireccion == {RECHAZO, NO_JSON} \cup { Parseada(d) : d \in DatosDireccion }

InitDireccion ==
    /\ direccionProcesada = NULO
    /\ direccionValue = ""
    /\ complemento = <<>>
    /\ ocultos = ElementosDireccion
    /\ msg = MsgVacio
    /\ btn = BotonListo
    /\ pendientes = <<>>
    /\ temporizadores = 0

\* the page's autocomplete stores the validated address the user picked in
\* window.direccionProcesada and shows it
SeleccionarDireccion(d) ==
    /\ formulario = "direccion"
    /\ UNCHANGED fueraDeDireccion
    /\ direccionProcesada' = d
    /\ direccionValue' = d.formatted
    /\ ocultos' = {}
    /\ UNCHANGED <<complemento, msg, btn, pendientes, temporizadores>>

\* the user edits #complemento
EscribirComplemento(v) ==
    /\ formulario = "direccion"
    /\ UNCHANGED fueraDeDireccion
    /\ v # complemento
    /\ complemento' = v
    /\ UNCHANGED <<direccionProcesada, direccionValue, ocultos, msg, btn,
                   pendientes, temporizadores>>

\* enviarDireccion: if (!window.direccionProcesada)
sinDireccion(dir) == dir = NULO

\* enviarDireccion: if (!street || !comuna || !region)
incompleta(dir) == ~Truthy(dir.street) \/ ~Truthy(dir.comuna) \/ ~Truthy(dir.region)

\* enviarDireccion: dataToSend
dataToSendDireccion(dir, comp) ==
    [street |-> dir.street, number |-> dir.number, comuna |-> dir.comuna,
     region |-> dir.region, postal |-> dir.postal, formatted |-> dir.formatted,
     street2 |-> trim(comp)]

\* enviarDireccion: btn.disabled = true before the fetch
botonAlEnviar(b) == BotonCargando

\* async function enviarDireccion(), up to its first await
enviarDireccion ==
    IF sinDireccion(direccionProcesada)
    THEN /\ msg' = [className |-> "msg warning",
                    innerHTML |-> <<"Primero selecciona una direccion del autocompletado">>]
         /\ UNCHANGED <<btn, pendientes>>
    ELSE IF incompleta(direccionProcesada)
    THEN /\ msg' = [className |-> "msg warning",
                    innerHTML |-> <<"La direccion seleccionada no tiene informacion completa. Intenta con otra direccion.">>]
         /\ UNCHANGED <<btn, pendientes>>
    ELSE /\ Len(pendientes) < MaxPendientes
         /\ btn' = botonAlEnviar(btn)
         /\ msg' = [className |-> "msg loading",
                    innerHTML |-> <<"Validando y creando en Odoo...">>]
         /\ pendientes' = Append(pendientes,
                                 dataToSendDireccion(direccionProcesada, complemento))

\* click on #btn-crear (a disabled button dispatches no click)
ClickCrear ==
    /\ formulario = "direccion"
    /\ UNCHANGED fueraDeDireccion
    /\ ~btn.disabled
    /\ enviarDireccion
    /\ UNCHANGED <<direccionProcesada, direccionValue, complemento, ocultos,
                   temporizadores>>

\* keypress Enter in #complemento
EnterComplemento ==
    /\ formulario = "direccion"
    /\ UNCHANGED fueraDeDireccion
    /\ direccionProcesada # NULO
    /\ enviarDireccion
    /\ UNCHANGED <<direccionProcesada, direccionValue, complemento, ocultos,
                   temporizadores>>

\* enviarDireccion: errorMsg of the server-error branch
errorMsgDireccion(data) ==
    <<"Error al crear la direccion">>
        \o (IF Truthy(data.error) THEN <<data.error>> ELSE <<>>)
        \o (IF Truthy(data.odoo_error) THEN <<"Detalles", data.odoo_error>> ELSE <<>>)

MsgConexion ==
    [className |-> "msg error",
     innerHTML |-> <<"Error de conexion",
                     "No se pudo conectar con el servidor. Verifica tu conexion a internet.">>]

\* data.status of a parsed body throws TypeError when the body is null
lanza(r) == r.red # "ok" \/ r.data = [nulo |-> TRUE]

\* enviarDireccion: the message the try / catch leaves in #msg
msgAlResolver(r) ==
    IF lanza(r) THEN MsgConexion
    ELSE IF r.data.status = "ok"
    THEN [className |-> "msg success",
          innerHTML |-> <<"Direccion creada exitosamente", "ID en Odoo", r.data.id>>]
    ELSE [className |-> "msg error", innerHTML |-> errorMsgDireccion(r.data)]

\* enviarDireccion: setTimeout(..., 3000) in the success branch
programaTemporizador(r) == ~lanza(r) /\ r.data.status = "ok"

\* enviarDireccion: finally
botonAlResolver(b) == BotonListo

\* the continuation of enviarDireccion after await fetch / await res.json()
\* for the i-th fetch in flight
ResolverDireccion(i, r) ==
    /\ formulario = "direccion"
    /\ UNCHANGED fueraDeDireccion
    /\ i \in 1..Len(pendientes)
    /\ programaTemporizador(r) => temporizadores < MaxTemporizadores
    /\ msg' = msgAlResolver(r)
    /\ temporizadores' = IF programaTemporizador(r)
                         THEN temporizadores + 1 ELSE temporizadores
    /\ btn' = botonAlResolver(btn)
    /\ pendientes' = SubSeq(pendientes, 1, i - 1)
                        \o SubSeq(pendientes, i + 1, Len(pendientes))
    /\ UNCHANGED <<direccionProcesada, direccionValue, complemento, ocultos>>

TemporizadorSinGlobal ==
    /\ formulario = "direccion"
    /\ UNCHANGED fueraDeDireccion
    /\ temporizadores > 0
    /\ temporizadores' = temporizadores - 1
    /\ direccionValue' = ""
    /\ complemento' = <<>>
    /\ ocultos' = ElementosDireccion
    /\ msg' = MsgVacio
    /\ UNCHANGED <<direccionProcesada, btn, pendientes>>

\* the callback of setTimeout(..., 3000)
Temporizador ==
    /\ formulario = "direccion"
    /\ UNCHANGED fueraDeDireccion
    /\ temporizadores > 0
    /\ temporizadores' = temporizadores - 1
    /\ direccionValue' = ""
    /\ complemento' = <<>>
    /\ ocultos' = ElementosDireccion
    /\ direccionProcesada' = NULO
    /\ msg' = MsgVacio
    /\ UNCHANGED <<btn, pendientes>>

\* the events of the address form
Seleccion == \E d \in Direcciones : SeleccionarDireccion(d)
Complemento == \E v \in ValoresComplemento : EscribirComplemento(v)
Resolucion ==
    \E i \in 1..MaxPendientes, r \in RespuestasDireccion : ResolverDireccion(i, r)

-----------------------------------------------------------------------------
(* src/contacto.js: email and phone validators *)

\* emailTrimmed.includes(c)
includes(s, c) == \E i \in 1..Len(s) : s[i] = c

\* [^\s@]
NoEspacioNiArroba(c) == ~EsEspacio(c) /\ c # "@"

\* /^[^\s@]+@[^\s@]+\.[^\s@]+$/.test(s)
emailRegex(s) ==
    \E a \in 1..Len(s), p \in 1..Len(s) :
        /\ 1 < a /\ a + 1 < p /\ p < Len(s)
        /\ s[a] = "@"
        /\ s[p] = "."
        /\ \A i \in 1..Len(s) : i # a => NoEspacioNiArroba(s[i])

\* function validarEmail(email)
validarEmail(email) ==
    LET emailTrimmed == trim(email)
    IN  IF email = <<>> \/ emailTrimmed = <<>>
            THEN [valid |-> FALSE, error |-> NULL]
        ELSE IF ~emailRegex(emailTrimmed)
            THEN IF ~includes(emailTrimmed, "@")
                     THEN [valid |-> FALSE, error |-> "Falta el simbolo @"]
                 ELSE IF ~includes(emailTrimmed, ".")
                     THEN [valid |-> FALSE, error |-> "Falta el dominio (ej: .com, .cl)"]
                 ELSE [valid |-> FALSE, error |-> "Formato de email invalido"]
        ELSE [valid |-> TRUE, error |-> NULL]

\* telefono.replace(/\D/g, '')
quitarNoDigitos(s) == SelectSeq(s, EsDigito)

\* function formatearTelefono(telefono)
formatearTelefono(telefono) ==
    LET d == quitarNoDigitos(telefono)
    IN  SubSeq(d, 1, IF Len(d) < 9 THEN Len(d) ELSE 9)

\* function validarTelefono(telefono)
validarTelefono(telefono) ==
    LET soloDigitos == quitarNoDigitos(telefono)
    IN  IF Len(soloDigitos) = 0
            THEN [valid |-> FALSE, error |-> NULL]
        ELSE IF Len(soloDigitos) < 9
            THEN [valid |-> FALSE, error |-> <<"Faltan digitos", toString(9 - Len(soloDigitos))>>]
        ELSE IF Len(soloDigitos) = 9
            THEN [valid |-> TRUE, error |-> NULL]
        ELSE [valid |-> FALSE, error |-> "Maximo 9 digitos"]

-----------------------------------------------------------------------------
(* src/contacto.js: the contact form, its fields *)

ElementosContacto == {"direccion-contacto-info", "complemento-contacto-wrapper",
                      "map-preview-contacto", "resumen-contacto",
                      "form-contacto", "resultado-contacto"}

\* what the user can leave in #rut by one edit: nothing, a valid RUT, one with
\* a wrong check digit, an unfinished one
RutsEscritos == {
    <<>>,
    <<"1", "2", "3", "4", "5", "6", "7", "8", "5">>,
    <<"1", "2", "3", "4", "5", "6", "7", "8", "-", "0">>,
    <<"1", "2", "3", "4">> }

EmailsEscritos == {
    <<>>,
    <<"a", "@", "b", ".", "c">>,
    <<"a", "@", "b">> }

TelefonosEscritos == {
    <<>>,
    <<"9", " ", "1", "2", "3", "4", " ", "5", "6", "7", "8">>,
    <<"9", "1", "2", "3">> }

\* what the user leaves in #complemento-contacto (it only travels in the
\* request body, as street2)
ComplementosContacto == {<<>>}

\* the options of #unidad-negocio
OpcionesUnidad == {
    [value |-> "", text |-> "Selecciona una unidad"],
    [value |-> "1", text |-> "Hogar"] }

CampoVacio == [value |-> <<>>, classList |-> {}]

HintRutInicial == [textContent |-> <<"Ingresa el RUT sin puntos">>, classList |-> {}]
HintVacio == [textContent |-> <<>>, classList |-> {}]

InitContacto ==
    /\ rutInput = CampoVacio
    /\ rutHint = HintRutInicial
    /\ emailInput = CampoVacio
    /\ emailHint = HintVacio
    /\ telefonoInput = CampoVacio
    /\ telefonoHint = HintVacio
    /\ unidadNegocio = [value |-> "", text |-> "Selecciona una unidad"]
    /\ direccionContactoValue = ""
    /\ complementoContacto = <<>>
    /\ direccionContactoProcesada = NULO
    /\ ocultosContacto = ElementosContacto \ {"form-contacto"}
    /\ msgContacto = MsgVacio
    /\ btnContacto = BotonListo
    /\ pendientesContacto = <<>>
    /\ resultadoContent = [tipo |-> "ninguno"]

\* actualizarResumen: if (rutValidacion.valid && unidadSelect?.value)
resumenVisible(rutValue, unidad) ==
    validarRut(limpiarRut(rutValue)).valid /\ Truthy(unidad.value)

actualizarResumenSinOcultar(hidden, rutValue, unidad) ==
    IF resumenVisible(rutValue, unidad)
    THEN hidden \ {"resumen-contacto"}
    ELSE hidden

\* function actualizarResumen(): the classList of #resumen-contacto (the rows
\* written to #resumen-content are not modelled)
actualizarResumen(hidden, rutValue, unidad) ==
    IF resumenVisible(rutValue, unidad)
    THEN hidden \ {"resumen-contacto"}
    ELSE hidden \cup {"resumen-contacto"}

\* classList.remove("invalid"); classList.add("valid")
marcarValido(classList) == (classList \ {"invalid"}) \cup {"valid"}

marcarInvalidoSinQuitar(classList) == classList \cup {"invalid"}

\* classList.remove("valid"); classList.add("invalid")
marcarInvalido(classList) == (classList \ {"valid"}) \cup {"invalid"}

\* classList.remove("valid", "invalid")
desmarcar(classList) == classList \ {"valid", "invalid"}

\* initRutValidation: e.target.value after the formatting step
valorRutFormateado(valor) ==
    IF Len(limpiarRut(valor)) >= 2 THEN formatearRut(limpiarRut(valor)) ELSE valor

\* initRutValidation: the "input" listener of #rut, the user having left
\* `valor` in the field
InputRutCon(valor) ==
    LET limpio == limpiarRut(valor)
        resultado == validarRut(limpio)
        nuevoValor == valorRutFormateado(valor)
    IN  /\ formulario = "contacto"
        /\ UNCHANGED fueraDeContacto
        /\ IF Len(limpio) >= 8
           THEN IF resultado.valid
                THEN /\ rutInput' = [value |-> nuevoValor,
                                     classList |-> marcarValido(rutInput.classList)]
                     /\ rutHint' = [textContent |-> <<"RUT valido">>,
                                    classList |-> marcarValido(rutHint.classList)]
                ELSE /\ rutInput' = [value |-> nuevoValor,
                                     classList |-> marcarInvalido(rutInput.classList)]
                     /\ rutHint' = [textContent |->
                                        <<IF resultado.error # NULL
                                          THEN resultado.error ELSE "RUT invalido">>,
                                    classList |-> marcarInvalido(rutHint.classList)]
           ELSE IF Len(limpio) > 0
           THEN /\ rutInput' = [value |-> nuevoValor,
                                classList |-> desmarcar(rutInput.classList)]
                /\ rutHint' = [textContent |-> <<"Ingresando", toString(Len(limpio))>>,
                               classList |-> desmarcar(rutHint.classList)]
           ELSE /\ rutInput' = [value |-> nuevoValor,
                                classList |-> desmarcar(rutInput.classList)]
                /\ rutHint' = [textContent |-> <<"Ingresa el RUT sin puntos">>,
                               classList |-> desmarcar(rutHint.classList)]
        /\ ocultosContacto' = actualizarResumen(ocultosContacto, nuevoValor, unidadNegocio)
        /\ UNCHANGED <<emailInput, emailHint, telefonoInput, telefonoHint,
                       unidadNegocio, direccionContactoValue, complementoContacto,
                       direccionContactoProcesada, msgContacto, btnContacto,
                       pendientesContacto, resultadoContent>>

\* initRutValidation: the "blur" listener of #rut
BlurRut ==
    /\ formulario = "contacto"
    /\ UNCHANGED fueraDeContacto
    /\ IF trim(rutInput.value) = <<>>
       THEN /\ rutInput' = [rutInput EXCEPT !.classList = desmarcar(@)]
            /\ rutHint' = [textContent |-> <<"Ingresa el RUT sin puntos">>,
                           classList |-> desmarcar(rutHint.classList)]
       ELSE UNCHANGED <<rutInput, rutHint>>
    /\ UNCHANGED <<emailInput, emailHint, telefonoInput, telefonoHint,
                   unidadNegocio, direccionContactoValue, complementoContacto,
                   direccionContactoProcesada, ocultosContacto, msgContacto,
                   btnContacto, pendientesContacto, resultadoContent>>

\* initEmailValidation: the "input" listener of #email
InputEmailCon(valor) ==
    LET resultado == validarEmail(valor)
    IN  /\ formulario = "contacto"
        /\ UNCHANGED fueraDeContacto
        /\ IF trim(valor) = <<>>
           THEN /\ emailInput' = [value |-> valor,
                                  classList |-> desmarcar(emailInput.classList)]
                /\ emailHint' = [textContent |-> <<>>,
                                 classList |-> desmarcar(emailHint.classList)]
           ELSE IF resultado.valid
           THEN /\ emailInput' = [value |-> valor,
                                  classList |-> marcarValido(emailInput.classList)]
                /\ emailHint' = [textContent |-> <<"Email valido">>,
                                 classList |-> marcarValido(emailHint.classList)]
           ELSE IF resultado.error # NULL
           THEN /\ emailInput' = [value |-> valor,
                                  classList |-> marcarInvalido(emailInput.classList)]
                /\ emailHint' = [textContent |-> <<resultado.error>>,
                                 classList |-> marcarInvalido(emailHint.classList)]
           ELSE /\ emailInput' = [emailInput EXCEPT !.value = valor]
                /\ UNCHANGED emailHint
        /\ ocultosContacto' = actualizarResumen(ocultosContacto, rutInput.value, unidadNegocio)
        /\ UNCHANGED <<rutInput, rutHint, telefonoInput, telefonoHint,
                       unidadNegocio, direccionContactoValue, complementoContacto,
                       direccionContactoProcesada, msgContacto, btnContacto,
                       pendientesContacto, resultadoContent>>

\* initEmailValidation: the "blur" listener of #email
BlurEmail ==
    /\ formulario = "contacto"
    /\ UNCHANGED fueraDeContacto
    /\ IF trim(emailInput.value) = <<>>
       THEN /\ emailInput' = [emailInput EXCEPT !.classList = desmarcar(@)]
            /\ emailHint' = [textContent |-> <<>>,
                             classList |-> desmarcar(emailHint.classList)]
       ELSE UNCHANGED <<emailInput, emailHint>>
    /\ UNCHANGED <<rutInput, rutHint, telefonoInput, telefonoHint,
                   unidadNegocio, direccionContactoValue, complementoContacto,
                   direccionContactoProcesada, ocultosContacto, msgContacto,
                   btnContacto, pendientesContacto, resultadoContent>>

\* initTelefonoValidation: the "input" listener of #telefono
InputTelefonoCon(valor) ==
    LET formateado == formatearTelefono(valor)
        resultado == validarTelefono(formateado)
    IN  /\ formulario = "contacto"
        /\ UNCHANGED fueraDeContacto
        /\ IF formateado = <<>>
           THEN /\ telefonoInput' = [value |-> formateado,
                                     classList |-> desmarcar(telefonoInput.classList)]
                /\ telefonoHint' = [textContent |-> <<>>,
                                    classList |-> desmarcar(telefonoHint.classList)]
           ELSE IF resultado.valid
           THEN /\ telefonoInput' = [value |-> formateado,
                                     classList |-> marcarValido(telefonoInput.classList)]
                /\ telefonoHint' = [textContent |-> <<"Telefono valido">>,
                                    classList |-> marcarValido(telefonoHint.classList)]
           ELSE IF resultado.error # NULL
           THEN /\ telefonoInput' = [value |-> formateado,
                                     classList |-> marcarInvalido(telefonoInput.classList)]
                /\ telefonoHint' = [textContent |-> <<resultado.error>>,
                                    classList |-> marcarInvalido(telefonoHint.classList)]
           ELSE /\ telefonoInput' = [telefonoInput EXCEPT !.value = formateado]
                /\ UNCHANGED telefonoHint
        /\ ocultosContacto' = actualizarResumen(ocultosContacto, rutInput.value, unidadNegocio)
        /\ UNCHANGED <<rutInput, rutHint, emailInput, emailHint,
                       unidadNegocio, direccionContactoValue, complementoContacto,
                       direccionContactoProcesada, msgContacto, btnContacto,
                       pendientesContacto, resultadoContent>>

\* initTelefonoValidation: the "blur" listener of #telefono
BlurTelefono ==
    /\ formulario = "contacto"
    /\ UNCHANGED fueraDeContacto
    /\ IF trim(telefonoInput.value) = <<>>
       THEN /\ telefonoInput' = [telefonoInput EXCEPT !.classList = desmarcar(@)]
            /\ telefonoHint' = [textContent |-> <<>>,
                                classList |-> desmarcar(telefonoHint.classList)]
       ELSE UNCHANGED <<telefonoInput, telefonoHint>>
    /\ UNCHANGED <<rutInput, rutHint, emailInput, emailHint,
                   unidadNegocio, direccionContactoValue, complementoContacto,
                   direccionContactoProcesada, ocultosContacto, msgContacto,
                   btnContacto, pendientesContacto, resultadoContent>>

\* initResumenListeners: "input" / "change" of #unidad-negocio, the user having
\* selected option o
CambioUnidadA(o) ==
    /\ formulario = "contacto"
    /\ UNCHANGED fueraDeContacto
    /\ o # unidadNegocio
    /\ unidadNegocio' = o
    /\ ocultosContacto' = actualizarResumen(ocultosContacto, rutInput.value, o)
    /\ UNCHANGED <<rutInput, rutHint, emailInput, emailHint, telefonoInput,
                   telefonoHint, direccionContactoValue, complementoContacto,
                   direccionContactoProcesada, msgContacto, btnContacto,
                   pendientesContacto, resultadoContent>>

\* initResumenListeners: "input" / "change" of #complemento-contacto
InputComplementoContactoCon(v) ==
    /\ formulario = "contacto"
    /\ UNCHANGED fueraDeContacto
    /\ complementoContacto' = v
    /\ ocultosContacto' = actualizarResumen(ocultosContacto, rutInput.value, unidadNegocio)
    /\ UNCHANGED <<rutInput, rutHint, emailInput, emailHint, telefonoInput,
                   telefonoHint, unidadNegocio, direccionContactoValue,
                   direccionContactoProcesada, msgContacto, btnContacto,
                   pendientesContacto, resultadoContent>>

\* the page's autocomplete stores the validated address the user picked in
\* window.direccionContactoProcesada and shows it
SeleccionarDireccionContacto(d) ==
    /\ formulario = "contacto"
    /\ UNCHANGED fueraDeContacto
    /\ direccionContactoProcesada' = d
    /\ direccionContactoValue' = d.formatted
    /\ ocultosContacto' = ocultosContacto \ {"direccion-contacto-info",
                              "complemento-contacto-wrapper", "map-preview-contacto"}
    /\ UNCHANGED <<rutInput, rutHint, emailInput, emailHint, telefonoInput,
                   telefonoHint, unidadNegocio, complementoContacto, msgContacto,
                   btnContacto, pendientesContacto, resultadoContent>>

\* the events of the contact form's fields; the fields are reachable while
\* #form-contacto is shown
FormularioVisible == "form-contacto" \notin ocultosContacto

InputRut == FormularioVisible /\ \E v \in RutsEscritos : InputRutCon(v)
InputEmail == FormularioVisible /\ \E v \in EmailsEscritos : InputEmailCon(v)
InputTelefono == FormularioVisible /\ \E v \in TelefonosEscritos : InputTelefonoCon(v)
CambioUnidad == FormularioVisible /\ \E o \in OpcionesUnidad : CambioUnidadA(o)
InputComplementoContacto ==
    FormularioVisible /\ \E v \in ComplementosContacto : InputComplementoContactoCon(v)
SeleccionContacto ==
    FormularioVisible /\ \E d \in Direcciones : SeleccionarDireccionContacto(d)

-----------------------------------------------------------------------------
(* src/contacto.js: crearContacto, mostrarResultado, volverAFormulario *)

MsgAviso(texto) == [className |-> "msg warning", innerHTML |-> <<texto>>]

\* crearContacto: the values read from the fields
rutLeido == limpiarRut(rutInput.value)
emailLeido == trim(emailInput.value)
telefonoLeido == trim(telefonoInput.value)
complementoLeido == trim(complementoContacto)

\* crearContacto: the validations, in order; the warning of the first that
\* fails, or NULL when all pass
avisoTelefonoSinValidar(telefono) ==
    IF telefono = <<>> THEN "Ingresa un numero de telefono" ELSE NULL

avisoTelefono(telefono) ==
    IF telefono = <<>> THEN "Ingresa un numero de telefono"
    ELSE IF ~validarTelefono(telefono).valid THEN "El telefono debe tener 9 digitos"
    ELSE NULL

avisoEmail(email) ==
    IF email = <<>> THEN "Ingresa un email"
    ELSE IF ~validarEmail(email).valid THEN validarEmail(email).error
    ELSE NULL

avisoDireccion(dir) ==
    IF dir = NULO THEN "Selecciona una direccion del autocompletado"
    ELSE IF incompleta(dir)
        THEN "La direccion seleccionada no tiene informacion completa. Intenta con otra direccion."
    ELSE NULL

avisoValidacion(rut, unidadId, email, telefono, dir) ==
    IF ~validarRut(rut).valid
        THEN (IF validarRut(rut).error # NULL
              THEN validarRut(rut).error ELSE "Ingresa un RUT valido")
    ELSE IF ~Truthy(unidadId) THEN "Selecciona una unidad de negocio"
    ELSE IF avisoEmail(email) # NULL THEN avisoEmail(email)
    ELSE IF avisoTelefono(telefono) # NULL THEN avisoTelefono(telefono)
    ELSE avisoDireccion(dir)

\* crearContacto: dataToSend
dataToSendContacto(rut, unidad, email, telefono, complementoC, dir) ==
    [rut |-> formatearRut(rut),
     unidad_negocio_id |-> parseInt(unidad.value),
     unidad_negocio_nombre |-> unidad.text,
     email |-> email,
     telefono |-> telefono,
     direccion |-> [street |-> dir.street,
                    number |-> IF Truthy(dir.number) THEN dir.number ELSE "",
                    comuna |-> dir.comuna,
                    region |-> dir.region,
                    postal |-> IF Truthy(dir.postal) THEN dir.postal ELSE "",
                    street2 |-> complementoC,
                    formatted |-> dir.formatted]]

\* async function crearContacto(), up to its await: the locals the suspended
\* call keeps are rut, unidadNombre, email, telefono and dataToSend
crearContacto ==
    LET aviso == avisoValidacion(rutLeido, unidadNegocio.value, emailLeido,
                                 telefonoLeido, direccionContactoProcesada)
    IN  IF aviso # NULL
        THEN /\ msgContacto' = MsgAviso(aviso)
             /\ UNCHANGED <<btnContacto, pendientesContacto>>
        ELSE /\ Len(pendientesContacto) < MaxPendientes
             /\ btnContacto' = botonAlEnviar(btnContacto)
             /\ msgContacto' = [className |-> "msg loading",
                                innerHTML |-> <<"Validando RUT y creando contacto en Odoo...">>]
             /\ pendientesContacto' = Append(pendientesContacto,
                    [rut |-> rutLeido,
                     unidadNombre |-> unidadNegocio.text,
                     email |-> emailLeido,
                     telefono |-> telefonoLeido,
                     dataToSend |-> dataToSendContacto(rutLeido, unidadNegocio,
                                        emailLeido, telefonoLeido, complementoLeido,
                                        direccionContactoProcesada)])

\* click on #btn-crear-contacto (a disabled button dispatches no click)
ClickCrearContacto ==
    /\ formulario = "contacto"
    /\ UNCHANGED fueraDeContacto
    /\ FormularioVisible
    /\ ~btnContacto.disabled
    /\ crearContacto
    /\ UNCHANGED <<rutInput, rutHint, emailInput, emailHint, telefonoInput,
                   telefonoHint, unidadNegocio, direccionContactoValue,
                   complementoContacto, direccionContactoProcesada,
                   ocultosContacto, resultadoContent>>

\* what the worker can answer to crearContacto
SinCampos ==
    [status |-> UNDEFINED, nombre |-> UNDEFINED, contact_id |-> UNDEFINED,
     service_address_id |-> UNDEFINED, scoring_status |-> UNDEFINED,
     equifax_mock |-> UNDEFINED, step |-> UNDEFINED, partner_id |-> UNDEFINED,
     partner_name |-> UNDEFINED, error |-> UNDEFINED, odoo_error |-> UNDEFINED]

DatosContacto == {
    [nulo |-> TRUE],
    [SinCampos EXCEPT !.status = "ok", !.nombre = "Ana Soto", !.contact_id = "11",
                      !.service_address_id = "21", !.scoring_status = "to_review"],
    [SinCampos EXCEPT !.status = "error", !.step = "verificando_rut_duplicado",
                      !.partner_id = "5", !.partner_name = "Ana Soto",
                      !.error = "El RUT ya existe"],
    [SinCampos EXCEPT !.status = "error", !.step = "verificando_rut_duplicado",
                      !.error = "No se pudo verificar el RUT"],
    SinCampos }

RespuestasContacto == {RECHAZO, NO_JSON} \cup { Parseada(d) : d \in DatosContacto }

\* crearContacto: the argument of mostrarResultado in the catch block
resultadoConexion(c) ==
    [tipo |-> "error", rut |-> formatearRut(c.rut),
     error |-> "No se pudo conectar con el servidor. Verifica tu conexion a internet.",
     step |-> UNDEFINED, odooError |-> UNDEFINED]

esDuplicadoSinPartner(data) == data.step = "verificando_rut_duplicado"

\* crearContacto: if (data.step === "verificando_rut_duplicado" && data.partner_id)
esDuplicado(data) == data.step = "verificando_rut_duplicado" /\ Truthy(data.partner_id)

\* crearContacto: the try block after the awaits, for response r, the
\* suspended call's locals c and the value of window.direccionContactoProcesada:
\* the calls of mostrarResultado it makes and whether it throws (reading
\* .status of null, or .formatted of null)
intento(r, c, dir) ==
    IF lanza(r) THEN [llamadas |-> <<>>, lanzo |-> TRUE]
    ELSE IF r.data.status = "ok"
    THEN IF dir = NULO
         THEN [llamadas |-> <<>>, lanzo |-> TRUE]
         ELSE [llamadas |->
                  <<[tipo |-> "success",
                     rut |-> formatearRut(c.rut),
                     nombre |-> IF Truthy(r.data.nombre)
                                THEN r.data.nombre ELSE c.unidadNombre,
                     email |-> c.email,
                     telefono |-> c.telefono,
                     direccion |-> dir.formatted,
                     contactId |-> r.data.contact_id,
                     serviceAddressId |-> r.data.service_address_id,
                     scoringStatus |-> IF Truthy(r.data.scoring_status)
                                       THEN r.data.scoring_status ELSE "approved",
                     isMock |-> Truthy(r.data.equifax_mock)]>>,
               lanzo |-> FALSE]
    ELSE IF esDuplicado(r.data)
    THEN [llamadas |->
             <<[tipo |-> "error_duplicado",
                rut |-> formatearRut(c.rut),
                partnerName |-> r.data.partner_name,
                partnerId |-> r.data.partner_id,
                error |-> r.data.error]>>,
          lanzo |-> FALSE]
    ELSE [llamadas |->
             <<[tipo |-> "error",
                rut |-> formatearRut(c.rut),
                error |-> r.data.error,
                step |-> r.data.step,
                odooError |-> r.data.odoo_error]>>,
          lanzo |-> FALSE]

llamadasSinCatch(r, c, dir) == intento(r, c, dir).llamadas

\* crearContacto: try and catch together: every call of mostrarResultado made
llamadasMostrarResultado(r, c, dir) ==
    intento(r, c, dir).llamadas
        \o (IF intento(r, c, dir).lanzo THEN <<resultadoConexion(c)>> ELSE <<>>)

\* mostrarResultado: the badge of the success screen
badgeClass(scoringStatus) ==
    IF scoringStatus = "discarded" THEN "rejected"
    ELSE IF scoringStatus = "to_review" THEN "review"
    ELSE "approved"

\* mostrarResultado: what is written to #resultado-content for `data`
html(data) ==
    IF data.tipo = "success"
    THEN [tipo |-> "success", rut |-> data.rut, email |-> data.email,
          telefono |-> data.telefono, direccion |-> data.direccion,
          contactId |-> data.contactId, badge |-> badgeClass(data.scoringStatus),
          isMock |-> data.isMock,
          botones |-> {"volverAFormulario()"}]
    ELSE IF data.tipo = "error_duplicado"
    THEN [tipo |-> "error_duplicado", rut |-> data.rut,
          partnerName |-> data.partnerName, partnerId |-> data.partnerId,
          botones |-> {"volverAFormulario()"}]
    ELSE [tipo |-> "error",
          subtitle |-> IF Truthy(data.error)
                       THEN data.error ELSE "Ocurrio un error inesperado",
          step |-> IF Truthy(data.step) THEN data.step ELSE "",
          odooError |-> IF Truthy(data.step) /\ Truthy(data.odooError)
                        THEN data.odooError ELSE "",
          botones |-> {"volverAFormulario(true)", "volverAFormulario()"}]

\* function mostrarResultado(data), applied for each call in turn
RECURSIVE contenidoTras(_, _)
contenidoTras(contenido, llamadas) ==
    IF llamadas = <<>> THEN contenido
    ELSE contenidoTras(html(Head(llamadas)), Tail(llamadas))

ocultosTrasSinOcultar(hidden, llamadas) ==
    IF llamadas = <<>> THEN hidden
    ELSE hidden \ {"resultado-contacto"}

\* mostrarResultado: formCard.classList.add("hidden");
\* resultadoCard.classList.remove("hidden")
ocultosTras(hidden, llamadas) ==
    IF llamadas = <<>> THEN hidden
    ELSE (hidden \cup {"form-contacto"}) \ {"resultado-contacto"}

\* the continuation of crearContacto after await fetch / await res.json()
\* for the i-th suspended call
ResolverContacto(i, r) ==
    /\ formulario = "contacto"
    /\ UNCHANGED fueraDeContacto
    /\ i \in 1..Len(pendientesContacto)
    /\ LET llamadas == llamadasMostrarResultado(r, pendientesContacto[i],
                                                direccionContactoProcesada)
       IN  /\ resultadoContent' = contenidoTras(resultadoContent, llamadas)
           /\ ocultosContacto' = ocultosTras(ocultosContacto, llamadas)
    /\ btnContacto' = botonAlResolver(btnContacto)
    /\ msgContacto' = MsgVacio
    /\ pendientesContacto' = SubSeq(pendientesContacto, 1, i - 1)
                                \o SubSeq(pendientesContacto, i + 1, Len(pendientesContacto))
    /\ UNCHANGED <<rutInput, rutHint, emailInput, emailHint, telefonoInput,
                   telefonoHint, unidadNegocio, direccionContactoValue,
                   complementoContacto, direccionContactoProcesada>>

\* function limpiarFormularioContacto(), when mantenerDatos is false
limpiarFormularioContacto ==
    /\ rutInput' = CampoVacio
    /\ unidadNegocio' = [value |-> "", text |-> "Selecciona una unidad"]
    /\ emailInput' = CampoVacio
    /\ telefonoInput' = CampoVacio
    /\ direccionContactoValue' = ""
    /\ complementoContacto' = <<>>
    /\ rutHint' = [textContent |-> <<"Ingresa el RUT sin puntos">>,
                   classList |-> desmarcar(rutHint.classList)]
    /\ emailHint' = [textContent |-> <<>>, classList |-> desmarcar(emailHint.classList)]
    /\ telefonoHint' = [textContent |-> <<>>,
                        classList |-> desmarcar(telefonoHint.classList)]
    /\ direccionContactoProcesada' = NULO
    /\ msgContacto' = MsgVacio

\* limpiarFormularioContacto: the elements it hides
ocultosAlLimpiar == {"direccion-contacto-info", "complemento-contacto-wrapper",
                     "map-preview-contacto", "resumen-contacto"}

\* function volverAFormulario(mantenerDatos), called by the buttons
\* mostrarResultado rendered
VolverAFormulario(mantenerDatos) ==
    /\ formulario = "contacto"
    /\ UNCHANGED fueraDeContacto
    /\ "resultado-contacto" \notin ocultosContacto
    /\ (IF mantenerDatos THEN "volverAFormulario(true)" ELSE "volverAFormulario()")
          \in resultadoContent.botones
    /\ IF mantenerDatos
       THEN /\ ocultosContacto' = (ocultosContacto \cup {"resultado-contacto"})
                                     \ {"form-contacto"}
            /\ UNCHANGED <<rutInput, rutHint, emailInput, emailHint, telefonoInput,
                           telefonoHint, unidadNegocio, direccionContactoValue,
                           complementoContacto, direccionContactoProcesada,
                           msgContacto>>
       ELSE /\ ocultosContacto' = ((ocultosContacto \cup {"resultado-contacto"})
                                     \ {"form-contacto"}) \cup ocultosAlLimpiar
            /\ limpiarFormularioContacto
    /\ UNCHANGED <<btnContacto, pendientesContacto, resultadoContent>>

ResolucionContacto ==
    \E i \in 1..MaxPendientes, r \in RespuestasContacto : ResolverContacto(i, r)
Volver == \E mantenerDatos \in BOOLEAN : VolverAFormulario(mantenerDatos)

-----------------------------------------------------------------------------
(* SpecRut: the RUT functions applied to bounded inputs *)

\* longest free tail appended to a prefix
MaxCola == 2

AlfabetoRut == {"0", "1", "2", "3", "4", "5", "6", "7", "8", "9",
                "K", "k", "-", "."}

Colas == UNION { [1..n -> AlfabetoRut] : n \in 0..MaxCola }

Prefijos == {
    <<>>,
    <<"1", "2", "3", "4", "5", "6">>,
    <<"1", "2", "3", "4", "5", "6", "7">>,
    <<"1", "2", "3", "4", "5", "6", "7", "8">>,
    <<"1", "2", ".", "3", "4", "5", ".", "6", "7", "8">>,
    <<"1", "2", ".", "3", "4", "5", ".", "6", "7", "0">>,
    <<"1", "1", "1", "1", "1", "1", "1">>,
    <<"1", "1", "1", "1", "1", "1", "1", "1">>,
    <<"7", "6", "5", "4", "3", "2">>,
    <<"9", "0", "0", "0", "0", "0">> }

EntradasRut == { p \o t : p \in Prefijos, t \in Colas }

RutEnReposo ==
    /\ original = <<>>
    /\ entrada = <<>>
    /\ origen = "ninguna"
    /\ llamada = "ninguna"
    /\ salida = <<>>

InitRut ==
    /\ formulario = "ninguno"
    /\ InitDireccion
    /\ InitContacto
    /\ original \in EntradasRut
    /\ entrada = original
    /\ origen = "ninguna"
    /\ llamada = "ninguna"
    /\ salida = <<>>

LlamarLimpiarRut ==
    /\ llamada = "ninguna"
    /\ llamada' = "limpiarRut"
    /\ salida' = limpiarRut(entrada)
    /\ UNCHANGED <<original, entrada, origen, formulario>>
    /\ UNCHANGED <<varsDireccion, varsContacto>>

LlamarFormatearRut ==
    /\ llamada = "ninguna"
    /\ llamada' = "formatearRut"
    /\ salida' = formatearRut(entrada)
    /\ UNCHANGED <<original, entrada, origen, formulario>>
    /\ UNCHANGED <<varsDireccion, varsContacto>>

LlamarValidarRut ==
    /\ llamada = "ninguna"
    /\ llamada' = "validarRut"
    /\ salida' = validarRut(entrada)
    /\ UNCHANGED <<original, entrada, origen, formulario>>
    /\ UNCHANGED <<varsDireccion, varsContacto>>

\* the caller passes the string a function returned on to the next call
\* (initRutValidation: formatearRut(limpio), validarRut(limpio); the
\* formatted field value is read back by crearContacto and actualizarResumen)
PasarSalida ==
    /\ origen = "ninguna"
    /\ llamada \in {"limpiarRut", "formatearRut"}
    /\ entrada' = salida
    /\ origen' = llamada
    /\ llamada' = "ninguna"
    /\ salida' = <<>>
    /\ UNCHANGED <<original, formulario>>
    /\ UNCHANGED <<varsDireccion, varsContacto>>

NextRut ==
    \/ LlamarLimpiarRut
    \/ LlamarFormatearRut
    \/ LlamarValidarRut
    \/ PasarSalida

SpecRut == InitRut /\ [][NextRut]_vars

-----------------------------------------------------------------------------
(* Spec: the forms *)

Init ==
    /\ RutEnReposo
    /\ formulario \in {"direccion", "contacto"}
    /\ InitDireccion
    /\ InitContacto

Next ==
    \/ Seleccion
    \/ Complemento
    \/ ClickCrear
    \/ EnterComplemento
    \/ Resolucion
    \/ Temporizador
    \/ InputRut
    \/ InputEmail
    \/ InputTelefono
    \/ BlurRut
    \/ BlurEmail
    \/ BlurTelefono
    \/ CambioUnidad
    \/ InputComplementoContacto
    \/ SeleccionContacto
    \/ ClickCrearContacto
    \/ ResolucionContacto
    \/ Volver

Spec == Init /\ [][Next]_vars

-----------------------------------------------------------------------------
(* SpecTelefono: crearContacto called with any content in #telefono *)

\* longest free tail appended to a prefix
MaxColaTelefono == 2

AlfabetoTelefono == {"8", " ", "+", "a"}

ColasTelefono == UNION { [1..n -> AlfabetoTelefono] : n \in 0..MaxColaTelefono }

PrefijosTelefono == {
    <<>>,
    <<"9", "1", "2", "3", "4", "5", "6">>,
    <<"9", "1", "2", "3", "4", "5", "6", "7">>,
    <<"9", " ", "1", "2", "3", "4", " ", "5", "6", "7">>,
    <<"+", "5", "6", " ", "9", "1", "2", "3", "4", "5">> }

\* telefonoInput.value as crearContacto may find it: the "input" listener is
\* the only code that normalises it, and a value the browser restores or fills
\* in, or that a script assigns, dispatches no "input" event
ContenidosTelefono == { p \o t : p \in PrefijosTelefono, t \in ColasTelefono }

\* the contact form filled in through its listeners with a valid RUT, a
\* business unit, a valid email and a complete address; #telefono holds any
\* content, not yet seen by its listener
InitTelefono ==
    /\ RutEnReposo
    /\ formulario = "contacto"
    /\ InitDireccion
    /\ rutInput = [value |-> <<"1", "2", "3", "4", "5", "6", "7", "8", "-", "5">>,
                   classList |-> marcarValido({})]
    /\ rutHint = [textContent |-> <<"RUT valido">>, classList |-> marcarValido({})]
    /\ emailInput = [value |-> <<"a", "@", "b", ".", "c">>,
                     classList |-> marcarValido({})]
    /\ emailHint = [textContent |-> <<"Email valido">>, classList |-> marcarValido({})]
    /\ telefonoInput \in { [value |-> c, classList |-> {}] : c \in ContenidosTelefono }
    /\ telefonoHint = HintVacio
    /\ unidadNegocio = [value |-> "1", text |-> "Hogar"]
    /\ direccionContactoProcesada \in { d \in Direcciones : ~incompleta(d) }
    /\ direccionContactoValue = direccionContactoProcesada.formatted
    /\ complementoContacto = <<>>
    /\ ocultosContacto = {"resultado-contacto"}
    /\ msgContacto = MsgVacio
    /\ btnContacto = BotonListo
    /\ pendientesContacto = <<>>
    /\ resultadoContent = [tipo |-> "ninguno"]

NextTelefono ==
    \/ InputTelefono
    \/ ClickCrearContacto
    \/ ResolucionContacto
    \/ Volver

SpecTelefono == InitTelefono /\ [][NextTelefono]_vars

-----------------------------------------------------------------------------
(* Properties of the RUT functions (SpecRut) *)

DigitoSet == {"0", "1", "2", "3", "4", "5", "6", "7", "8", "9"}

\* a cleaned string: only 0-9 and K
EsLimpio(s) == \A i \in 1..Len(s) : s[i] \in DigitoSet \cup {"K"}

CuerpoDe(s) == SubSeq(s, 1, Len(s) - 1)
DvDe(s) == s[Len(s)]

SoloDigitos(s) == \A i \in 1..Len(s) : s[i] \in DigitoSet

UnDigitoRepetido(s) ==
    Len(s) >= 1 /\ SoloDigitos(s) /\ \A i, j \in 1..Len(s) : s[i] = s[j]

ValorDigito(c) == CHOOSE n \in 0..9 : Digitos[n + 1] = c

\* weight of the j-th digit from the right (j = 0 is the rightmost): 2,3,4,5,6,7,2,...
PesoEn(j) == 2 + (j % 6)

RECURSIVE SumaPonderada(_, _)
SumaPonderada(cuerpo, j) ==
    IF j >= Len(cuerpo)
    THEN 0
    ELSE ValorDigito(cuerpo[Len(cuerpo) - j]) * PesoEn(j) + SumaPonderada(cuerpo, j + 1)

\* the expected check character of the modulo-11 formula
DvModulo11(cuerpo) ==
    LET r == 11 - (SumaPonderada(cuerpo, 0) % 11)
    IN  IF r = 11 THEN "0" ELSE IF r = 10 THEN "K" ELSE Digitos[r + 1]

\* validarRut has been applied to a cleaned string with a body of 7 or 8 digits
ValidadoCuerpo7u8 ==
    /\ llamada = "validarRut"
    /\ EsLimpio(entrada)
    /\ Len(entrada) \in {8, 9}
    /\ SoloDigitos(CuerpoDe(entrada))

\* C1 (as stated): for every cleaned input whose body is 7 or 8 digits,
\* validarRut(...).valid is true iff the last character equals the expected
\* check character of the modulo-11 formula.
C1_Original ==
    ValidadoCuerpo7u8 =>
        (salida.valid <=> DvDe(entrada) = DvModulo11(CuerpoDe(entrada)))

\* C1 (amended): the same equivalence for bodies of 7 or 8 digits that are not
\* one digit repeated; a body of one repeated digit is invalid whatever its
\* check character.
C1_Modulo11 ==
    ValidadoCuerpo7u8 =>
        /\ ~UnDigitoRepetido(CuerpoDe(entrada)) =>
              (salida.valid <=> DvDe(entrada) = DvModulo11(CuerpoDe(entrada)))
        /\ UnDigitoRepetido(CuerpoDe(entrada)) => ~salida.valid

\* a valid RUT whose expected check character is K has been validated
C1_Witness ==
    /\ ValidadoCuerpo7u8
    /\ salida.valid
    /\ DvDe(entrada) = "K"

\* C5: validarRut rejects, with a non-null error, every cleaned input of at
\* least 2 characters whose body has a non-digit, fewer than 7 or more than 8
\* digits, or is one digit repeated, whether or not the check character matches.
C5_Rechazos ==
    ( /\ llamada = "validarRut"
      /\ EsLimpio(entrada)
      /\ Len(entrada) >= 2
      /\ \/ \E i \in 1..(Len(entrada) - 1) : entrada[i] = "K"
         \/ Len(entrada) - 1 < 7
         \/ Len(entrada) - 1 > 8
         \/ UnDigitoRepetido(CuerpoDe(entrada)) )
    => (salida.valid = FALSE /\ salida.error # NULL)

\* a body of one repeated digit with the matching check character was rejected
C5_Witness ==
    /\ ValidadoCuerpo7u8
    /\ UnDigitoRepetido(CuerpoDe(entrada))
    /\ DvDe(entrada) = DvModulo11(CuerpoDe(entrada))
    /\ salida.valid = FALSE
    /\ salida.error # NULL

\* a string of the form body-check: cleaned characters with one hyphen before
\* the last character
FormaCuerpoDv(s) ==
    /\ Len(s) >= 3
    /\ s[Len(s) - 1] = "-"
    /\ \A i \in 1..Len(s) : i # Len(s) - 1 => s[i] \in DigitoSet \cup {"K"}

\* C6: formatearRut is idempotent, formatearRut(formatearRut(x)) =
\* formatearRut(x), and an input already of the form body-check is returned
\* unchanged.
C6_Idempotente ==
    /\ (origen = "formatearRut" /\ llamada = "formatearRut") => salida = entrada
    /\ (llamada = "formatearRut" /\ FormaCuerpoDv(entrada)) => salida = entrada

\* formatearRut was applied to its own output, which differs from the raw string
C6_Witness ==
    /\ origen = "formatearRut"
    /\ llamada = "formatearRut"
    /\ entrada # original
    /\ FormaCuerpoDv(entrada)

Vector12345678_5 == <<"1", "2", "3", "4", "5", "6", "7", "8", "-", "5">>
Vector11111111_1 == <<"1", "1", "1", "1", "1", "1", "1", "1", "-", "1">>
Vector76543216 == <<"7", "6", "5", "4", "3", "2", "1", "6">>

\* C7: the known vectors: 12345678-5 is valid, 11111111-1 is invalid because of
\* repeated digits, and formatearRut of 76543216 is 7654321-6.
C7_Vectores ==
    /\ (llamada = "validarRut" /\ entrada = Vector12345678_5) =>
          salida = [valid |-> TRUE, error |-> NULL]
    /\ (llamada = "validarRut" /\ entrada = Vector11111111_1) =>
          salida = [valid |-> FALSE, error |-> "RUT invalido (numeros repetidos)"]
    /\ (llamada = "formatearRut" /\ entrada = Vector76543216) =>
          salida = <<"7", "6", "5", "4", "3", "2", "1", "-", "6">>

\* validarRut has been applied to 12345678-5
C7_Witness ==
    /\ llamada = "validarRut"
    /\ entrada = Vector12345678_5
    /\ salida.valid

\* the digits and k/K of s, in order, k as K
RECURSIVE DigitosYK(_)
DigitosYK(s) ==
    IF s = <<>> THEN <<>>
    ELSE IF Head(s) \in DigitoSet THEN <<Head(s)>> \o DigitosYK(Tail(s))
    ELSE IF Head(s) \in {"k", "K"} THEN <<"K">> \o DigitosYK(Tail(s))
    ELSE DigitosYK(Tail(s))

\* C8: limpiarRut returns the input's digits and k/K in order with k
\* upper-cased, so only 0-9 and K; limpiarRut(limpiarRut(x)) = limpiarRut(x);
\* validarRut and formatearRut give the same result on x and on limpiarRut(x).
C8_Limpiar ==
    /\ llamada = "limpiarRut" =>
          (salida = DigitosYK(entrada) /\ EsLimpio(salida))
    /\ (origen = "limpiarRut" /\ llamada = "limpiarRut") => salida = entrada
    /\ (origen = "limpiarRut" /\ llamada = "validarRut") =>
          salida = validarRut(original)
    /\ (origen = "limpiarRut" /\ llamada = "formatearRut") =>
          salida = formatearRut(original)

\* a valid RUT written with dots, hyphen and a lower-case k was cleaned and
\* then validated
C8_Witness ==
    /\ origen = "limpiarRut"
    /\ llamada = "validarRut"
    /\ Len(entrada) < Len(original)
    /\ \E i \in 1..Len(original) : original[i] = "k"
    /\ salida.valid

-----------------------------------------------------------------------------
(* Properties of the forms (Spec) *)

\* C2: for each form at most one webhook request is in flight at any time,
\* under every interleaving of clicks, Enter key presses and completions.
C2_UnaEnVuelo ==
    /\ Len(pendientes) <= 1
    /\ Len(pendientesContacto) <= 1

\* the conditions under which each form may post, read off the fields
DireccionCompleta(dir) ==
    /\ dir # NULO
    /\ dir.street # ""
    /\ dir.comuna # ""
    /\ dir.region # ""

ContactoValido ==
    /\ validarRut(limpiarRut(rutInput.value)).valid
    /\ unidadNegocio.value # ""
    /\ trim(emailInput.value) # <<>>
    /\ validarEmail(trim(emailInput.value)).valid
    /\ trim(telefonoInput.value) # <<>>
    /\ validarTelefono(trim(telefonoInput.value)).valid
    /\ DireccionCompleta(direccionContactoProcesada)

\* C3: crearContacto posts only when RUT, business unit, email, phone and
\* address all pass; enviarDireccion only when a complete address is selected;
\* otherwise no request is sent, the button is left as it was and the message
\* box gets a warning.
C3_Validacion ==
    [][ /\ ClickCrearContacto =>
              IF ContactoValido
              THEN Len(pendientesContacto') = Len(pendientesContacto) + 1
              ELSE /\ pendientesContacto' = pendientesContacto
                   /\ btnContacto' = btnContacto
                   /\ msgContacto'.className = "msg warning"
                   /\ msgContacto'.innerHTML # <<>>
        /\ (ClickCrear \/ EnterComplemento) =>
              IF DireccionCompleta(direccionProcesada)
              THEN Len(pendientes') = Len(pendientes) + 1
              ELSE /\ pendientes' = pendientes
                   /\ btn' = btn
                   /\ msg'.className = "msg warning"
                   /\ msg'.innerHTML # <<>>
      ]_vars

\* crearContacto refused a form whose only fault is a short phone number
C3_Witness ==
    /\ msgContacto = MsgAviso("El telefono debe tener 9 digitos")
    /\ validarRut(limpiarRut(rutInput.value)).valid
    /\ unidadNegocio.value # ""
    /\ validarEmail(emailInput.value).valid
    /\ DireccionCompleta(direccionContactoProcesada)
    /\ ~validarTelefono(telefonoInput.value).valid
    /\ pendientesContacto = <<>>
    /\ ~btnContacto.disabled

TextoConexion == "No se pudo conectar con el servidor. Verifica tu conexion a internet."

\* C4: when the fetch rejects or the body is not JSON the form shows the
\* connection-error message (address form: message box of class error; contact
\* form: result screen of type error with the connection text), and nothing is
\* retried: a call starts at most one request and its completion starts none.
C4_ErrorDeConexion ==
    [][ /\ \A r \in {RECHAZO, NO_JSON} :
              /\ (\E i \in 1..MaxPendientes : ResolverDireccion(i, r)) =>
                    /\ msg'.className = "msg error"
                    /\ msg'.innerHTML = <<"Error de conexion", TextoConexion>>
                    /\ Len(pendientes') = Len(pendientes) - 1
              /\ (\E i \in 1..MaxPendientes : ResolverContacto(i, r)) =>
                    /\ "resultado-contacto" \notin ocultosContacto'
                    /\ resultadoContent'.tipo = "error"
                    /\ resultadoContent'.subtitle = TextoConexion
                    /\ Len(pendientesContacto') = Len(pendientesContacto) - 1
        /\ Len(pendientes') <= Len(pendientes) + 1
        /\ Len(pendientesContacto') <= Len(pendientesContacto) + 1
        /\ (Resolucion \/ Temporizador) => Len(pendientes') < Len(pendientes) + 1
        /\ ResolucionContacto => Len(pendientesContacto') < Len(pendientesContacto)
      ]_vars

\* the contact form shows the connection error and nothing is in flight
C4_Witness ==
    /\ "resultado-contacto" \notin ocultosContacto
    /\ resultadoContent.tipo = "error"
    /\ resultadoContent.subtitle = TextoConexion
    /\ pendientesContacto = <<>>

\* the outcome the response calls for
EstadoDe(data) == IF data = [nulo |-> TRUE] THEN UNDEFINED ELSE data.status

\* C9 (as stated): once the request of a submission has resolved, the
\* page-global address becomes null without further user action: a completion
\* after which the page has nothing in flight and no timer pending leaves the
\* global null.
C9_Original ==
    [][ /\ (Resolucion /\ pendientes' = <<>> /\ temporizadores' = 0) =>
              direccionProcesada' = NULO
        /\ (ResolucionContacto /\ pendientesContacto' = <<>>) =>
              direccionContactoProcesada' = NULO
      ]_vars

\* C9 (amended): the completion of a request leaves the page-global address
\* as it is on both forms.  On the address form a success response, and no
\* other, schedules a timer, and the global is null when that timer has run,
\* with no user action.  On the contact form the global becomes null only by
\* volverAFormulario() without mantenerDatos.
C9_Descarte ==
    [][ /\ Resolucion => direccionProcesada' = direccionProcesada
        /\ \A r \in RespuestasDireccion :
              (\E i \in 1..MaxPendientes : ResolverDireccion(i, r)) =>
                 (temporizadores' = temporizadores + 1
                     <=> (r.red = "ok" /\ EstadoDe(r.data) = "ok"))
        /\ Temporizador => direccionProcesada' = NULO
        /\ (direccionProcesada # NULO /\ direccionProcesada' = NULO) => Temporizador
        /\ ResolucionContacto =>
              direccionContactoProcesada' = direccionContactoProcesada
        /\ (direccionContactoProcesada # NULO /\ direccionContactoProcesada' = NULO)
              => VolverAFormulario(FALSE)
      ]_vars

\* the address form shows a server or connection error, nothing is in flight
\* or scheduled, and the address is still there
C9_Witness ==
    /\ msg.className = "msg error"
    /\ pendientes = <<>>
    /\ temporizadores = 0
    /\ direccionProcesada # NULO

TipoEsperado(data) ==
    IF EstadoDe(data) = "ok" THEN "success"
    ELSE IF /\ data # [nulo |-> TRUE]
            /\ data.step = "verificando_rut_duplicado"
            /\ data.partner_id \notin {"", UNDEFINED, NULL}
         THEN "error_duplicado"
    ELSE "error"

\* C10: the outcome shown for a resolved request is decided by the response
\* alone: status "ok" gives success; for crearContacto a non-ok response with
\* step "verificando_rut_duplicado" and a truthy partner_id gives the
\* duplicate-RUT outcome; every other parsed response gives the generic error;
\* exactly one outcome is shown per resolved request.
C10_Resultado ==
    [][ /\ \A d \in DatosDireccion :
              (\E i \in 1..MaxPendientes : ResolverDireccion(i, Parseada(d))) =>
                  msg'.className =
                      (IF EstadoDe(d) = "ok" THEN "msg success" ELSE "msg error")
        /\ \A d \in DatosContacto : \A i \in 1..MaxPendientes :
              ResolverContacto(i, Parseada(d)) =>
                  /\ "resultado-contacto" \notin ocultosContacto'
                  /\ "form-contacto" \in ocultosContacto'
                  /\ resultadoContent'.tipo = TipoEsperado(d)
                  /\ Len(llamadasMostrarResultado(Parseada(d), pendientesContacto[i],
                                                  direccionContactoProcesada)) = 1
      ]_vars

\* the duplicate-RUT screen is shown
C10_Witness ==
    /\ "resultado-contacto" \notin ocultosContacto
    /\ resultadoContent.tipo = "error_duplicado"
    /\ pendientesContacto = <<>>

\* C11: the submit button of a form is disabled exactly while a request of
\* that form is in flight: disabled (loader shown) from before the fetch until
\* its outcome, and never enabled while a request is still pending.
C11_BotonEnVuelo ==
    /\ btn.disabled <=> pendientes # <<>>
    /\ btn.loaderActive <=> pendientes # <<>>
    /\ btnContacto.disabled <=> pendientesContacto # <<>>
    /\ btnContacto.loaderActive <=> pendientesContacto # <<>>

-----------------------------------------------------------------------------
(* Properties of the contact form's cards and fields (Spec) *)

ResumenMostrado == "resumen-contacto" \notin ocultosContacto

\* C13: after any sequence of input / change events on the contact form's
\* fields, form resets and summary refreshes, the summary card is visible
\* exactly when the current RUT field passes validarRut and a business unit is
\* selected.
C13_Resumen ==
    ResumenMostrado <=>
        (validarRut(limpiarRut(rutInput.value)).valid /\ unidadNegocio.value # "")

\* the summary is shown on a form whose other fields were edited too
C13_Witness ==
    /\ ResumenMostrado
    /\ FormularioVisible
    /\ validarRut(limpiarRut(rutInput.value)).valid
    /\ unidadNegocio.value # ""
    /\ emailInput.value # <<>>
    /\ telefonoInput.value # <<>>

\* while a timer is pending, an address that is incomplete is not the one a
\* successful submission sent (enviarDireccion refuses incomplete addresses):
\* it was picked after that submission
DireccionPosterior ==
    direccionProcesada # NULO /\ incompleta(direccionProcesada)

\* while a timer is pending, a message that is not a success message was
\* written after the success response that scheduled the timer
MensajePosterior == msg.className \notin {"msg", "msg success"}

\* C16: the delayed reset scheduled after a successful creation clears only
\* the submission it belongs to: an address selected anew, or a message
\* produced by a new submission, since that submission is not wiped when the
\* timer fires.
C16_SoloSuEnvio ==
    [][ Temporizador =>
            /\ DireccionPosterior => direccionProcesada' = direccionProcesada
            /\ MensajePosterior => msg' = msg
      ]_vars

\* exactly one of #form-contacto and #resultado-contacto is shown
UnaTarjeta ==
    ("form-contacto" \in ocultosContacto) # ("resultado-contacto" \in ocultosContacto)

SoloFormulario ==
    /\ "form-contacto" \notin ocultosContacto
    /\ "resultado-contacto" \in ocultosContacto

SoloResultado ==
    /\ "form-contacto" \in ocultosContacto
    /\ "resultado-contacto" \notin ocultosContacto

SinEstado(classList) == classList \cap {"valid", "invalid"} = {}

\* C14: exactly one of the form card and the result card is visible in every
\* reachable state; mostrarResultado hides the form and shows the result,
\* volverAFormulario does the reverse; volverAFormulario(true) leaves every
\* field value, every field's valid / invalid state and
\* window.direccionContactoProcesada unchanged; volverAFormulario() empties the
\* six fields, removes the valid / invalid states, hides the summary and sets
\* window.direccionContactoProcesada to null.
C14_Tarjetas ==
    [][ /\ UnaTarjeta
        /\ UnaTarjeta'
        /\ ResolucionContacto => SoloResultado'
        /\ Volver => SoloFormulario'
        /\ VolverAFormulario(TRUE) =>
              UNCHANGED <<rutInput, rutHint, emailInput, emailHint, telefonoInput,
                          telefonoHint, unidadNegocio, direccionContactoValue,
                          complementoContacto, direccionContactoProcesada>>
        /\ VolverAFormulario(FALSE) =>
              /\ rutInput'.value = <<>>
              /\ unidadNegocio'.value = ""
              /\ emailInput'.value = <<>>
              /\ telefonoInput'.value = <<>>
              /\ direccionContactoValue' = ""
              /\ complementoContacto' = <<>>
              /\ SinEstado(rutInput'.classList)
              /\ SinEstado(rutHint'.classList)
              /\ SinEstado(emailInput'.classList)
              /\ SinEstado(emailHint'.classList)
              /\ SinEstado(telefonoInput'.classList)
              /\ SinEstado(telefonoHint'.classList)
              /\ ~ResumenMostrado'
              /\ direccionContactoProcesada' = NULO
      ]_vars

\* back on the form after "volver a intentar": the error result is behind,
\* the fields and the address are as they were sent
C14_Witness ==
    /\ SoloFormulario
    /\ resultadoContent.tipo = "error"
    /\ rutInput.classList = {"valid"}
    /\ telefonoInput.value # <<>>
    /\ direccionContactoProcesada # NULO
    /\ pendientesContacto = <<>>
    /\ ~btnContacto.disabled

\* C15: the success screen of crearContacto shows the data of the request
\* that was sent: its RUT, email, phone and address equal rut, email, telefono
\* and direccion.formatted of the payload, whatever happened to
\* window.direccionContactoProcesada while the request was in flight; a
\* response with status "ok" always ends in the success screen.
C15_PantallaDeExito ==
    [][ \A i \in 1..MaxPendientes : \A d \in DatosContacto :
            (EstadoDe(d) = "ok" /\ ResolverContacto(i, Parseada(d))) =>
                /\ SoloResultado'
                /\ resultadoContent'.tipo = "success"
                /\ resultadoContent'.rut = pendientesContacto[i].dataToSend.rut
                /\ resultadoContent'.email = pendientesContacto[i].dataToSend.email
                /\ resultadoContent'.telefono = pendientesContacto[i].dataToSend.telefono
                /\ resultadoContent'.direccion =
                      pendientesContacto[i].dataToSend.direccion.formatted
      ]_vars

\* the displayed state of a field agrees with what its validator returned for
\* the field's content; `umbral` is what lets an error show
EstadoAcorde(campo, resultado, umbral) ==
    /\ ~({"valid", "invalid"} \subseteq campo.classList)
    /\ "valid" \in campo.classList <=> resultado.valid
    /\ "invalid" \in campo.classList <=> (resultado.error # NULL /\ umbral)
    /\ campo.value = <<>> => SinEstado(campo.classList)

\* C17: after every input event on the RUT, email or phone field the field
\* never carries both the valid and the invalid state; it has the valid state
\* exactly when its validator returns valid for its current value, the invalid
\* state exactly when the validator returns a non-null error (for the RUT
\* field, once the cleaned value has at least 8 characters), and neither state
\* when it is empty.  Stated of every reachable state of the form: the states
\* after input events, and those after blur events and resets as well.
C17_EstadoDeCampos ==
    /\ EstadoAcorde(rutInput, validarRut(rutInput.value),
                    Len(limpiarRut(rutInput.value)) >= 8)
    /\ EstadoAcorde(emailInput, validarEmail(emailInput.value), TRUE)
    /\ EstadoAcorde(telefonoInput, validarTelefono(telefonoInput.value), TRUE)

\* the three fields after input events: a RUT with a wrong check digit, an
\* email without domain, a complete phone number
C17_Witness ==
    /\ rutInput.classList = {"invalid"}
    /\ Len(limpiarRut(rutInput.value)) >= 8
    /\ emailInput.classList = {"invalid"}
    /\ telefonoInput.classList = {"valid"}
    /\ FormularioVisible

-----------------------------------------------------------------------------
(* Properties of crearContacto for any phone content (SpecTelefono) *)

NueveDigitos(s) == Len(s) = 9 /\ SoloDigitos(s)

\* C12: whenever crearContacto issues a request, the telefono of the payload
\* is a string of exactly 9 decimal digits and nothing else, whatever the phone
\* field held at the time of the call.
C12_TelefonoEnPayload ==
    \A i \in 1..Len(pendientesContacto) :
        NueveDigitos(pendientesContacto[i].dataToSend.telefono)

====
